---- MODULE Spec2Model ----
(***************************************************************************)
(* Model of cache.go (package cache): a generic map cache refreshed by a   *)
(* loader, guarded by a sync.RWMutex, with a background goroutine that     *)
(* reloads on every tick of a time.Ticker until the quit channel is        *)
(* closed.                                                                 *)
(*                                                                         *)
(* Processes are the caller goroutines and the goroutines spawned by       *)
(* StartAutoReload.  A step is one access to shared memory (or a run of    *)
(* accesses nobody else can observe separately).  An unrecovered panic     *)
(* ends the process: no action is enabled once panicked # NoPanic.         *)
(***************************************************************************)
EXTENDS Integers, FiniteSets, Sequences, TLC

\* ---- bounds ----
NumCallers == 2      \* caller goroutines using the cache concurrently
MaxTasks == 2        \* goroutines StartAutoReload may spawn in one run
MaxTickers == 2      \* time.NewTicker calls in one run
MaxInterval == 1     \* intervals are drawn from 0..MaxInterval
MaxVal == 2          \* values are drawn from 1..MaxVal

Keys == {"a", "b"}
Vals == 1..MaxVal
Intervals == 0..MaxInterval

Callers == {<<"c", i>> : i \in 1..NumCallers}
Tasks == {<<"g", i>> : i \in 1..MaxTasks}
Procs == Callers \cup Tasks
NoProc == <<"none", 0>>

\* ---- map values and map references ----
\* The contents of a Go map: a function from a subset of Keys to Vals.
Maps == UNION {[D -> Vals] : D \in SUBSET Keys}
EmptyMap == [k \in {} |-> 0]
\* A map reference is nil, the one map object the loader retains and may
\* return again (its contents are in loaderMap), or an object nobody else
\* references, written with its contents.
NilMap == [kind |-> "nil", m |-> EmptyMap]
Shared == [kind |-> "shared", m |-> EmptyMap]
Own(m) == [kind |-> "own", m |-> m]
Refs == {NilMap, Shared} \cup {Own(m) : m \in Maps}

\* ---- results of Get, Find and FindOne ----
\* The zero value of T (var zero T).
Zero == 0
\* A predicate func(T) bool is written as the set of values it holds for.
Preds == SUBSET Vals
\* No read in progress.
NoRet == [k |-> "", p |-> {}, val |-> Zero, ok |-> FALSE, out |-> <<>>]

\* ---- tickers ----
NoTicker == 0
TickerIds == 1..MaxTickers

\* ---- panics ----
NoPanic == "none"
PanicCloseClosed == "close of closed channel"
PanicNilDeref == "nil pointer dereference"
PanicNilMap == "assignment to entry in nil map"
PanicInterval == "non-positive interval for NewTicker"

VARIABLES
  data,        \* c.data: a map reference
  interval,    \* c.interval
  ticker,      \* c.ticker: NoTicker (nil) or a ticker id
  quit,        \* c.quit: "open" or "closed"
  mu,          \* c.mu: [w |-> the writer or NoProc, r |-> the set of readers]
  loaderMap,   \* <<contents>> of the map object the loader retains, <<>> if none yet
  nextTicker,  \* number of tickers created so far
  active,      \* the tickers that have not been stopped
  pending,     \* the tickers with a tick buffered in their channel C
  pc,          \* position of every process
  result,      \* Load's local result, per process
  waitOn,      \* the ticker whose C a task's select waits on
  visible,     \* per task: the values an unlocked read of c.ticker may yield
  sinceQuit,   \* values c.ticker has held since close(c.quit)
  iter,        \* GetAll: the map reference being ranged over, per caller
  acc,         \* GetAll: the copy built so far, per caller
  ret,         \* Get, Find, FindOne: the call's arguments and results, per caller
  held,        \* a map returned by GetAll that its caller still holds
  panicked     \* NoPanic, or the panic that ended the process

vars == <<data, interval, ticker, quit, mu, loaderMap, nextTicker, active,
          pending, pc, result, waitOn, visible, sinceQuit, iter, acc, ret, held,
          panicked>>

\* Contents of the map a reference points to (a nil map reads as empty).
Contents(ref) ==
  IF ref.kind = "shared" THEN loaderMap[1] ELSE ref.m

\* m[k] = v
MapSet(m, k, v) == [x \in DOMAIN m \cup {k} |-> IF x = k THEN v ELSE m[x]]
\* delete(m, k)
MapDelete(m, k) == [x \in DOMAIN m \ {k} |-> m[x]]

\* ---- sync.RWMutex ----
\* A write lock that does not wait for the readers to leave.
CanLockIgnoringReaders == mu.w = NoProc

\* Lock succeeds when there is no writer and no reader; RLock when there is
\* no writer.
CanLock == mu.w = NoProc /\ mu.r = {}
CanRLock == mu.w = NoProc
Alive == panicked = NoPanic

\* NewCache
Init ==
  /\ data = Own(EmptyMap)
  /\ interval \in Intervals
  /\ ticker = NoTicker
  /\ quit = "open"
  /\ mu = [w |-> NoProc, r |-> {}]
  /\ loaderMap = <<>>
  /\ nextTicker = 0
  /\ active = {}
  /\ pending = {}
  /\ pc = [p \in Procs |-> IF p \in Callers THEN "idle" ELSE "unborn"]
  /\ result = [p \in Procs |-> NilMap]
  /\ waitOn = [g \in Tasks |-> NoTicker]
  /\ visible = [g \in Tasks |-> {}]
  /\ sinceQuit = {}
  /\ iter = [c \in Callers |-> NilMap]
  /\ acc = [c \in Callers |-> EmptyMap]
  /\ ret = [c \in Callers |-> NoRet]
  /\ held = NilMap
  /\ panicked = NoPanic

\* ---- helpers shared by the operations ----
Lock(p) == [mu EXCEPT !.w = p]
Unlock == [mu EXCEPT !.w = NoProc]
LiveTask(g) == pc[g] \notin {"unborn", "done"}

\* An assignment to c.ticker (always made under c.mu).  The background
\* goroutines read c.ticker without the lock, so until they synchronise they
\* may observe this value or an earlier one.
WriteTicker(v) ==
  /\ ticker' = v
  /\ visible' = [g \in Tasks |-> IF LiveTask(g) THEN visible[g] \cup {v} ELSE visible[g]]
  /\ sinceQuit' = IF quit = "closed" THEN sinceQuit \cup {v} ELSE sinceQuit

\* time.NewTicker(d) panics unless d > 0.
NewTickerPanics(d) == d <= 0

\* (*time.Ticker).Stop: no more ticks are sent.  Whether a tick already
\* buffered in C stays receivable depends on the Go release (keep).
StopTicker(id, keep) ==
  /\ active' = active \ {id}
  /\ pending' = IF keep THEN pending ELSE pending \ {id}

\* Where a process continues after Load returns.
AfterLoad(p) == IF p \in Callers THEN "idle" ELSE "sel"

\* ---- the time.Ticker runtime: a tick is sent unless one is still buffered ----
Tick(id) ==
  /\ Alive
  /\ UNCHANGED <<ret, held>>
  /\ id \in active
  /\ id \notin pending
  /\ pending' = pending \cup {id}
  /\ UNCHANGED <<data, interval, ticker, quit, mu, loaderMap, nextTicker, active,
                 pc, result, waitOn, visible, sinceQuit, iter, acc, panicked>>

\* ---- Load / Reload ----
\* Load taking the write lock before it calls the loader.
LoadCallLocked(c) ==
  /\ Alive
  /\ UNCHANGED <<ret, held>>
  /\ pc[c] = "idle"
  /\ CanLock
  /\ mu' = Lock(c)
  /\ pc' = [pc EXCEPT ![c] = "loader"]
  /\ UNCHANGED <<data, interval, ticker, quit, loaderMap, nextTicker, active,
                 pending, result, waitOn, visible, sinceQuit, iter, acc, panicked>>

\* A caller enters Load (or Reload) and calls c.loader(), holding no lock.
LoadCall(c) ==
  /\ Alive
  /\ UNCHANGED <<ret, held>>
  /\ pc[c] = "idle"
  /\ pc' = [pc EXCEPT ![c] = "loader"]
  /\ UNCHANGED <<data, interval, ticker, quit, mu, loaderMap, nextTicker, active,
                 pending, result, waitOn, visible, sinceQuit, iter, acc, panicked>>

\* The background goroutine returning when its Load fails.
LoaderFailEndsTask(p) ==
  /\ Alive
  /\ UNCHANGED <<ret, held>>
  /\ pc[p] = "loader"
  /\ pc' = [pc EXCEPT ![p] = IF p \in Tasks THEN "done" ELSE "idle"]
  /\ UNCHANGED <<data, interval, ticker, quit, mu, loaderMap, nextTicker, active,
                 pending, result, waitOn, visible, sinceQuit, iter, acc, panicked>>

\* Load logging the error without returning: the nil result is swapped in.
LoaderFailSwaps(p) ==
  /\ Alive
  /\ UNCHANGED <<ret, held>>
  /\ pc[p] = "loader"
  /\ CanLock
  /\ data' = NilMap
  /\ pc' = [pc EXCEPT ![p] = AfterLoad(p)]
  /\ UNCHANGED <<interval, ticker, quit, mu, loaderMap, nextTicker, active,
                 pending, result, waitOn, visible, sinceQuit, iter, acc, panicked>>

\* c.loader() returns an error: Load logs it and returns.
LoaderFail(p) ==
  /\ Alive
  /\ UNCHANGED <<ret, held>>
  /\ pc[p] = "loader"
  /\ pc' = [pc EXCEPT ![p] = AfterLoad(p)]
  /\ UNCHANGED <<data, interval, ticker, quit, mu, loaderMap, nextTicker, active,
                 pending, result, waitOn, visible, sinceQuit, iter, acc, panicked>>

\* c.loader() returns r with a nil error.  r is a map built for this call,
\* a nil map, or the map object the loader retains (created with contents m
\* on its first use).
LoaderReturn(p, r, m) ==
  /\ Alive
  /\ UNCHANGED <<ret, held>>
  /\ pc[p] = "loader"
  /\ r \in {NilMap, Shared, Own(m)}
  /\ loaderMap' = IF r = Shared /\ loaderMap = <<>> THEN <<m>> ELSE loaderMap
  /\ result' = [result EXCEPT ![p] = r]
  /\ pc' = [pc EXCEPT ![p] = "swap"]
  /\ UNCHANGED <<data, interval, ticker, quit, mu, nextTicker, active,
                 pending, waitOn, visible, sinceQuit, iter, acc, panicked>>

\* Load merging the loaded entries into the current map instead of
\* replacing it.
LoadSwapMerge(p) ==
  /\ Alive
  /\ UNCHANGED <<ret, held>>
  /\ pc[p] = "swap"
  /\ CanLock
  /\ data' = Own([k \in DOMAIN Contents(data) \cup DOMAIN Contents(result[p]) |->
                    IF k \in DOMAIN Contents(result[p])
                      THEN Contents(result[p])[k] ELSE Contents(data)[k]])
  /\ result' = [result EXCEPT ![p] = NilMap]
  /\ pc' = [pc EXCEPT ![p] = AfterLoad(p)]
  /\ visible' = IF p \in Tasks THEN [visible EXCEPT ![p] = {ticker}] ELSE visible
  /\ UNCHANGED <<interval, ticker, quit, mu, loaderMap, nextTicker, active,
                 pending, waitOn, sinceQuit, iter, acc, panicked>>

\* c.mu.Lock(); c.data = result; c.mu.Unlock().  Taking the lock also makes
\* every earlier assignment to c.ticker visible to a background goroutine.
LoadSwap(p) ==
  /\ Alive
  /\ UNCHANGED <<ret, held>>
  /\ pc[p] = "swap"
  /\ CanLock
  /\ data' = result[p]
  /\ result' = [result EXCEPT ![p] = NilMap]
  /\ pc' = [pc EXCEPT ![p] = AfterLoad(p)]
  /\ visible' = IF p \in Tasks THEN [visible EXCEPT ![p] = {ticker}] ELSE visible
  /\ UNCHANGED <<interval, ticker, quit, mu, loaderMap, nextTicker, active,
                 pending, waitOn, sinceQuit, iter, acc, panicked>>

\* Add storing the entry in a map of its own: the other entries are lost.
AddLost(c, k, v) ==
  /\ Alive
  /\ UNCHANGED <<ret, held>>
  /\ pc[c] = "idle"
  /\ CanLock
  /\ data' = Own(MapSet(EmptyMap, k, v))
  /\ UNCHANGED <<interval, ticker, quit, mu, loaderMap, nextTicker, active, pending,
                 pc, result, waitOn, visible, sinceQuit, iter, acc, panicked>>

\* Delete dropping every entry.
DeleteAll(c, k) ==
  /\ Alive
  /\ UNCHANGED <<ret, held>>
  /\ pc[c] = "idle"
  /\ CanLock
  /\ data' = Own(EmptyMap)
  /\ UNCHANGED <<interval, ticker, quit, mu, loaderMap, nextTicker, active, pending,
                 pc, result, waitOn, visible, sinceQuit, iter, acc, panicked>>

\* ---- point mutations ----
\* Add: c.data[key] = value under the write lock; panics on a nil map.
Add(c, k, v) ==
  /\ Alive
  /\ UNCHANGED <<ret, held>>
  /\ pc[c] = "idle"
  /\ CanLock
  /\ IF data = NilMap
       THEN /\ panicked' = PanicNilMap
            /\ UNCHANGED <<data, loaderMap>>
       ELSE /\ panicked' = panicked
            /\ IF data = Shared
                 THEN /\ loaderMap' = <<MapSet(loaderMap[1], k, v)>>
                      /\ data' = data
                 ELSE /\ data' = Own(MapSet(data.m, k, v))
                      /\ loaderMap' = loaderMap
  /\ UNCHANGED <<interval, ticker, quit, mu, nextTicker, active,
                 pending, pc, result, waitOn, visible, sinceQuit, iter, acc>>

\* Delete: delete(c.data, key) under the write lock; a no-op on a nil map.
Delete(c, k) ==
  /\ Alive
  /\ UNCHANGED <<ret, held>>
  /\ pc[c] = "idle"
  /\ CanLock
  /\ IF data = Shared
       THEN /\ loaderMap' = <<MapDelete(loaderMap[1], k)>>
            /\ data' = data
       ELSE /\ data' = IF data = NilMap THEN data ELSE Own(MapDelete(data.m, k))
            /\ loaderMap' = loaderMap
  /\ UNCHANGED <<interval, ticker, quit, mu, nextTicker, active, pending, pc,
                 result, waitOn, visible, sinceQuit, iter, acc, panicked>>

\* Clear: c.data = make(map[string]T) under the write lock.
Clear(c) ==
  /\ Alive
  /\ UNCHANGED <<ret, held>>
  /\ pc[c] = "idle"
  /\ CanLock
  /\ data' = Own(EmptyMap)
  /\ UNCHANGED <<interval, ticker, quit, mu, loaderMap, nextTicker, active, pending,
                 pc, result, waitOn, visible, sinceQuit, iter, acc, panicked>>

\* ---- GetAll ----
\* c.mu.RLock(); result := make(...); the range over c.data begins.
GetAllBegin(c) ==
  /\ Alive
  /\ UNCHANGED <<ret, held>>
  /\ pc[c] = "idle"
  /\ CanRLock
  /\ mu' = [mu EXCEPT !.r = @ \cup {c}]
  /\ iter' = [iter EXCEPT ![c] = data]
  /\ acc' = [acc EXCEPT ![c] = EmptyMap]
  /\ pc' = [pc EXCEPT ![c] = "getall"]
  /\ UNCHANGED <<data, interval, ticker, quit, loaderMap, nextTicker, active,
                 pending, result, waitOn, visible, sinceQuit, panicked>>

\* One iteration of the range loop: result[k] = v.
GetAllCopy(c, k) ==
  /\ Alive
  /\ UNCHANGED <<ret, held>>
  /\ pc[c] = "getall"
  /\ k \in DOMAIN Contents(iter[c]) \ DOMAIN acc[c]
  /\ acc' = [acc EXCEPT ![c] = MapSet(@, k, Contents(iter[c])[k])]
  /\ UNCHANGED <<data, interval, ticker, quit, mu, loaderMap, nextTicker, active,
                 pending, pc, result, waitOn, visible, sinceQuit, iter, panicked>>

\* GetAll returning c.data itself instead of the copy.
GetAllReturnsData(c, track) ==
  /\ Alive
  /\ pc[c] = "getall"
  /\ DOMAIN Contents(iter[c]) \subseteq DOMAIN acc[c]
  /\ mu' = [mu EXCEPT !.r = @ \ {c}]
  /\ pc' = [pc EXCEPT ![c] = "idle"]
  /\ iter' = [iter EXCEPT ![c] = NilMap]
  /\ acc' = [acc EXCEPT ![c] = EmptyMap]
  /\ held' = IF track THEN iter[c] ELSE held
  /\ UNCHANGED <<data, interval, ticker, quit, loaderMap, nextTicker, active,
                 pending, result, waitOn, visible, sinceQuit, ret, panicked>>

\* The range is exhausted: c.mu.RUnlock() and return result (acc[c]), a map
\* object of its own.  The caller keeps the returned map (track) or drops it.
GetAllReturn(c, track) ==
  /\ Alive
  /\ pc[c] = "getall"
  /\ DOMAIN Contents(iter[c]) \subseteq DOMAIN acc[c]
  /\ mu' = [mu EXCEPT !.r = @ \ {c}]
  /\ pc' = [pc EXCEPT ![c] = "idle"]
  /\ iter' = [iter EXCEPT ![c] = NilMap]
  /\ acc' = [acc EXCEPT ![c] = EmptyMap]
  /\ held' = IF track THEN Own(acc[c]) ELSE held
  /\ UNCHANGED <<data, interval, ticker, quit, loaderMap, nextTicker, active,
                 pending, result, waitOn, visible, sinceQuit, ret, panicked>>

\* ---- the caller's use of a map GetAll returned ----
\* all[k] = v on the returned map.
HeldSet(k, v) ==
  /\ Alive
  /\ held # NilMap
  /\ IF held = Shared
       THEN /\ loaderMap' = <<MapSet(loaderMap[1], k, v)>>
            /\ held' = held
       ELSE /\ held' = Own(MapSet(held.m, k, v))
            /\ loaderMap' = loaderMap
  /\ UNCHANGED <<data, interval, ticker, quit, mu, nextTicker, active, pending, pc,
                 result, waitOn, visible, sinceQuit, iter, acc, ret, panicked>>

\* delete(all, k) on the returned map.
HeldDelete(k) ==
  /\ Alive
  /\ held # NilMap
  /\ IF held = Shared
       THEN /\ loaderMap' = <<MapDelete(loaderMap[1], k)>>
            /\ held' = held
       ELSE /\ held' = Own(MapDelete(held.m, k))
            /\ loaderMap' = loaderMap
  /\ UNCHANGED <<data, interval, ticker, quit, mu, nextTicker, active, pending, pc,
                 result, waitOn, visible, sinceQuit, iter, acc, ret, panicked>>

\* ---- Get, Find, FindOne ----
\* val, ok := m[k]
Lookup(m, k) == IF k \in DOMAIN m THEN <<m[k], TRUE>> ELSE <<Zero, FALSE>>

\* The orders in which a range loop may visit the keys of m.
Orders(m) ==
  {o \in [1..Cardinality(DOMAIN m) -> DOMAIN m] :
     \A i, j \in 1..Cardinality(DOMAIN m) : o[i] = o[j] => i = j}

\* Find's loop returning at its first match.
RECURSIVE FindLoopFirstOnly(_, _, _)
FindLoopFirstOnly(m, o, P) ==
  IF o = <<>> THEN <<>>
  ELSE IF m[Head(o)] \in P THEN <<m[Head(o)]>>
  ELSE FindLoopFirstOnly(m, Tail(o), P)

\* Find's loop over m in order o: the values satisfying predicate P, appended
\* as they are met.
RECURSIVE FindLoop(_, _, _)
FindLoop(m, o, P) ==
  IF o = <<>> THEN <<>>
  ELSE IF m[Head(o)] \in P THEN <<m[Head(o)]>> \o FindLoop(m, Tail(o), P)
  ELSE FindLoop(m, Tail(o), P)

\* FindOne's loop over m in order o: the first value satisfying P, or the
\* zero value and false.
RECURSIVE FindOneLoop(_, _, _)
FindOneLoop(m, o, P) ==
  IF o = <<>> THEN <<Zero, FALSE>>
  ELSE IF m[Head(o)] \in P THEN <<m[Head(o)], TRUE>>
  ELSE FindOneLoop(m, Tail(o), P)

\* Get: c.mu.RLock(); val, ok := c.data[key]
GetRead(c, k) ==
  /\ Alive
  /\ pc[c] = "idle"
  /\ CanRLock
  /\ mu' = [mu EXCEPT !.r = @ \cup {c}]
  /\ pc' = [pc EXCEPT ![c] = "get"]
  /\ ret' = [ret EXCEPT ![c] = [NoRet EXCEPT !.k = k,
                                  !.val = Lookup(Contents(data), k)[1],
                                  !.ok = Lookup(Contents(data), k)[2]]]
  /\ UNCHANGED <<data, interval, ticker, quit, loaderMap, nextTicker, active, pending,
                 result, waitOn, visible, sinceQuit, iter, acc, held, panicked>>

\* Find: c.mu.RLock(); the range over c.data, visiting the keys in order o,
\* collects the values satisfying P.
FindRead(c, P, o) ==
  /\ Alive
  /\ pc[c] = "idle"
  /\ CanRLock
  /\ o \in Orders(Contents(data))
  /\ mu' = [mu EXCEPT !.r = @ \cup {c}]
  /\ pc' = [pc EXCEPT ![c] = "find"]
  /\ ret' = [ret EXCEPT ![c] = [NoRet EXCEPT !.p = P,
                                  !.out = FindLoop(Contents(data), o, P)]]
  /\ UNCHANGED <<data, interval, ticker, quit, loaderMap, nextTicker, active, pending,
                 result, waitOn, visible, sinceQuit, iter, acc, held, panicked>>

\* FindOne: c.mu.RLock(); the range over c.data, visiting the keys in order
\* o, stops at the first value satisfying P.
FindOneRead(c, P, o) ==
  /\ Alive
  /\ pc[c] = "idle"
  /\ CanRLock
  /\ o \in Orders(Contents(data))
  /\ mu' = [mu EXCEPT !.r = @ \cup {c}]
  /\ pc' = [pc EXCEPT ![c] = "findone"]
  /\ ret' = [ret EXCEPT ![c] = [NoRet EXCEPT !.p = P,
                                  !.val = FindOneLoop(Contents(data), o, P)[1],
                                  !.ok = FindOneLoop(Contents(data), o, P)[2]]]
  /\ UNCHANGED <<data, interval, ticker, quit, loaderMap, nextTicker, active, pending,
                 result, waitOn, visible, sinceQuit, iter, acc, held, panicked>>

\* The deferred c.mu.RUnlock() of Get, Find and FindOne, and their return.
ReadReturn(c) ==
  /\ Alive
  /\ pc[c] \in {"get", "find", "findone"}
  /\ mu' = [mu EXCEPT !.r = @ \ {c}]
  /\ pc' = [pc EXCEPT ![c] = "idle"]
  /\ ret' = [ret EXCEPT ![c] = NoRet]
  /\ UNCHANGED <<data, interval, ticker, quit, loaderMap, nextTicker, active, pending,
                 result, waitOn, visible, sinceQuit, iter, acc, held, panicked>>

\* ---- StartAutoReload ----
\* c.mu.Lock() (the deferred Unlock runs when the call returns or panics).
\* A call that would create a ticker or a goroutine beyond the bounds is
\* not started.
StartLock(c) ==
  /\ Alive
  /\ UNCHANGED <<ret, held>>
  /\ pc[c] = "idle"
  /\ CanLock
  /\ ticker # NoTicker \/ (nextTicker < MaxTickers /\ \E g \in Tasks : pc[g] = "unborn")
  /\ mu' = Lock(c)
  /\ pc' = [pc EXCEPT ![c] = "start"]
  /\ UNCHANGED <<data, interval, ticker, quit, loaderMap, nextTicker, active, pending,
                 result, waitOn, visible, sinceQuit, iter, acc, panicked>>

\* StartAutoReload without the "already running" check.
StartBodyNoCheck(c) ==
  /\ Alive
  /\ UNCHANGED <<ret, held>>
  /\ pc[c] = "start"
  /\ IF NewTickerPanics(interval)
       THEN /\ panicked' = PanicInterval
            /\ mu' = Unlock
            /\ UNCHANGED <<ticker, nextTicker, active, visible, sinceQuit, pc>>
       ELSE /\ nextTicker' = nextTicker + 1
            /\ active' = active \cup {nextTicker + 1}
            /\ WriteTicker(nextTicker + 1)
            /\ pc' = [pc EXCEPT ![c] = "start_go"]
            /\ UNCHANGED <<mu, panicked>>
  /\ UNCHANGED <<data, interval, quit, loaderMap, pending, result, waitOn, iter, acc>>

\* if c.ticker != nil { return }; c.ticker = time.NewTicker(c.interval)
StartBody(c) ==
  /\ Alive
  /\ UNCHANGED <<ret, held>>
  /\ pc[c] = "start"
  /\ IF ticker # NoTicker
       THEN /\ mu' = Unlock
            /\ pc' = [pc EXCEPT ![c] = "idle"]
            /\ UNCHANGED <<ticker, nextTicker, active, visible, sinceQuit, panicked>>
       ELSE IF NewTickerPanics(interval)
         THEN /\ panicked' = PanicInterval
              /\ mu' = Unlock
              /\ UNCHANGED <<ticker, nextTicker, active, visible, sinceQuit, pc>>
         ELSE /\ nextTicker' = nextTicker + 1
              /\ active' = active \cup {nextTicker + 1}
              /\ WriteTicker(nextTicker + 1)
              /\ pc' = [pc EXCEPT ![c] = "start_go"]
              /\ UNCHANGED <<mu, panicked>>
  /\ UNCHANGED <<data, interval, quit, loaderMap, pending, result, waitOn, iter, acc>>

\* The goroutine the go statement of StartAutoReload creates.
NewTask == CHOOSE g \in Tasks : pc[g] = "unborn" /\ \A h \in Tasks : pc[h] = "unborn" => g[2] <= h[2]

\* go func() {...}() and the deferred c.mu.Unlock().  The new goroutine sees
\* every write made before the go statement.
StartGo(c) ==
  /\ Alive
  /\ UNCHANGED <<ret, held>>
  /\ pc[c] = "start_go"
  /\ pc' = [pc EXCEPT ![c] = "idle", ![NewTask] = "sel"]
  /\ visible' = [visible EXCEPT ![NewTask] = {ticker}]
  /\ mu' = Unlock
  /\ UNCHANGED <<data, interval, ticker, quit, loaderMap, nextTicker, active, pending,
                 result, waitOn, sinceQuit, iter, acc, panicked>>

\* ---- the background goroutine ----
\* Top of the for loop: the select evaluates c.ticker.C, reading c.ticker
\* without the lock; a nil c.ticker panics.
TaskSelect(g, t) ==
  /\ Alive
  /\ UNCHANGED <<ret, held>>
  /\ pc[g] = "sel"
  /\ t \in visible[g]
  /\ IF t = NoTicker
       THEN /\ panicked' = PanicNilDeref
            /\ UNCHANGED <<pc, waitOn>>
       ELSE /\ pc' = [pc EXCEPT ![g] = "wait"]
            /\ waitOn' = [waitOn EXCEPT ![g] = t]
            /\ panicked' = panicked
  /\ UNCHANGED <<data, interval, ticker, quit, mu, loaderMap, nextTicker, active,
                 pending, result, visible, sinceQuit, iter, acc>>

\* case <-c.ticker.C: c.Load(), which calls c.loader().
TaskTick(g) ==
  /\ Alive
  /\ UNCHANGED <<ret, held>>
  /\ pc[g] = "wait"
  /\ waitOn[g] \in pending
  /\ pending' = pending \ {waitOn[g]}
  /\ pc' = [pc EXCEPT ![g] = "loader"]
  /\ waitOn' = [waitOn EXCEPT ![g] = NoTicker]
  /\ UNCHANGED <<data, interval, ticker, quit, mu, loaderMap, nextTicker, active,
                 result, visible, sinceQuit, iter, acc, panicked>>

\* case <-c.quit: c.ticker.Stop(); return.  The receive follows the close,
\* so the read of c.ticker yields t, a value assigned no earlier than the
\* last one before the close; a nil c.ticker panics.
TaskQuit(g, t, keep) ==
  /\ Alive
  /\ UNCHANGED <<ret, held>>
  /\ pc[g] = "wait"
  /\ quit = "closed"
  /\ t \in visible[g] \cap sinceQuit
  /\ IF t = NoTicker
       THEN /\ panicked' = PanicNilDeref
            /\ UNCHANGED <<pc, waitOn, visible, active, pending>>
       ELSE /\ StopTicker(t, keep)
            /\ pc' = [pc EXCEPT ![g] = "done"]
            /\ waitOn' = [waitOn EXCEPT ![g] = NoTicker]
            /\ visible' = [visible EXCEPT ![g] = {}]
            /\ panicked' = panicked
  /\ UNCHANGED <<data, interval, ticker, quit, mu, loaderMap, nextTicker,
                 result, sinceQuit, iter, acc>>

\* ---- StopAutoReload ----
StopLock(c) ==
  /\ Alive
  /\ UNCHANGED <<ret, held>>
  /\ pc[c] = "idle"
  /\ CanLock
  /\ mu' = Lock(c)
  /\ pc' = [pc EXCEPT ![c] = "stop"]
  /\ UNCHANGED <<data, interval, ticker, quit, loaderMap, nextTicker, active, pending,
                 result, waitOn, visible, sinceQuit, iter, acc, panicked>>

\* if c.ticker != nil { c.ticker.Stop(); c.ticker = nil }
StopBody(c, keep) ==
  /\ Alive
  /\ UNCHANGED <<ret, held>>
  /\ pc[c] = "stop"
  /\ IF ticker # NoTicker
       THEN /\ StopTicker(ticker, keep)
            /\ WriteTicker(NoTicker)
       ELSE UNCHANGED <<ticker, active, pending, visible, sinceQuit>>
  /\ pc' = [pc EXCEPT ![c] = "stop_close"]
  /\ UNCHANGED <<data, interval, quit, mu, loaderMap, nextTicker, result, waitOn,
                 iter, acc, panicked>>

\* close(c.quit), which panics on a closed channel, and the deferred Unlock.
StopClose(c) ==
  /\ Alive
  /\ UNCHANGED <<ret, held>>
  /\ pc[c] = "stop_close"
  /\ mu' = Unlock
  /\ IF quit = "closed"
       THEN /\ panicked' = PanicCloseClosed
            /\ UNCHANGED <<quit, sinceQuit, pc>>
       ELSE /\ quit' = "closed"
            /\ sinceQuit' = {ticker}
            /\ pc' = [pc EXCEPT ![c] = "idle"]
            /\ panicked' = panicked
  /\ UNCHANGED <<data, interval, ticker, loaderMap, nextTicker, active, pending,
                 result, waitOn, visible, iter, acc>>

\* ---- SetInterval ----
\* c.interval = interval; if c.ticker != nil { c.ticker.Stop();
\* c.ticker = time.NewTicker(c.interval) }, all under the write lock.
SetInterval(c, d, keep) ==
  /\ Alive
  /\ UNCHANGED <<ret, held>>
  /\ pc[c] = "idle"
  /\ CanLock
  /\ ticker # NoTicker => nextTicker < MaxTickers
  /\ interval' = d
  /\ IF ticker = NoTicker
       THEN UNCHANGED <<ticker, nextTicker, active, pending, visible, sinceQuit, panicked>>
       ELSE IF NewTickerPanics(d)
         THEN /\ StopTicker(ticker, keep)
              /\ panicked' = PanicInterval
              /\ UNCHANGED <<ticker, nextTicker, visible, sinceQuit>>
         ELSE /\ active' = (active \ {ticker}) \cup {nextTicker + 1}
              /\ pending' = IF keep THEN pending ELSE pending \ {ticker}
              /\ nextTicker' = nextTicker + 1
              /\ WriteTicker(nextTicker + 1)
              /\ panicked' = panicked
  /\ UNCHANGED <<data, quit, mu, loaderMap, pc, result, waitOn, iter, acc>>

\* The mappings the loader produces when it succeeds (the two of the
\* end-to-end scenario: {"a":1,"b":2}, then {"a":10}).
LoaderOutputs ==
  {[k \in Keys |-> IF k = "a" THEN 1 ELSE MaxVal], [k \in {"a"} |-> MaxVal]}

TickerRefs == {NoTicker} \cup TickerIds

\* ---- the data path: loads, point mutations and reads, with auto-reload
\* started and left running ----
NextData ==
  \/ \E c \in Callers : LoadCall(c)
  \/ \E p \in Procs : LoaderFail(p)
  \/ \E p \in Procs, m \in LoaderOutputs, r \in Refs : LoaderReturn(p, r, m)
  \/ \E p \in Procs : LoadSwap(p)
  \/ \E c \in Callers, k \in Keys, v \in Vals : Add(c, k, v)
  \/ \E c \in Callers, k \in Keys : Delete(c, k)
  \/ \E c \in Callers : Clear(c)
  \/ \E c \in Callers : GetAllBegin(c)
  \/ \E c \in Callers, k \in Keys : GetAllCopy(c, k)
  \/ \E c \in Callers : GetAllReturn(c, FALSE)
  \/ \E id \in TickerIds : Tick(id)
  \/ \E c \in Callers : StartLock(c)
  \/ \E c \in Callers : StartBody(c)
  \/ \E c \in Callers : StartGo(c)
  \/ \E g \in Tasks, t \in TickerRefs : TaskSelect(g, t)
  \/ \E g \in Tasks : TaskTick(g)

SpecData == Init /\ [][NextData]_vars

\* ---- the auto-reload lifecycle: start, stop, reconfigure, ticks and the
\* loads they trigger, next to manual loads ----
NextLifecycle ==
  \/ \E id \in TickerIds : Tick(id)
  \/ \E c \in Callers : LoadCall(c)
  \/ \E p \in Procs : LoaderFail(p)
  \/ \E p \in Procs, m \in LoaderOutputs : LoaderReturn(p, Own(m), m)
  \/ \E p \in Procs : LoadSwap(p)
  \/ \E c \in Callers : StartLock(c)
  \/ \E c \in Callers : StartBody(c)
  \/ \E c \in Callers : StartGo(c)
  \/ \E g \in Tasks, t \in TickerRefs : TaskSelect(g, t)
  \/ \E g \in Tasks : TaskTick(g)
  \/ \E g \in Tasks, t \in TickerRefs, keep \in BOOLEAN : TaskQuit(g, t, keep)
  \/ \E c \in Callers : StopLock(c)
  \/ \E c \in Callers, keep \in BOOLEAN : StopBody(c, keep)
  \/ \E c \in Callers : StopClose(c)
  \/ \E c \in Callers, d \in Intervals, keep \in BOOLEAN : SetInterval(c, d, keep)

SpecLifecycle == Init /\ [][NextLifecycle]_vars

\* ---- the reads: Get, Find and FindOne next to loads and point
\* mutations by the callers; no auto-reload ----
NextReads ==
  \/ \E c \in Callers : LoadCall(c)
  \/ \E c \in Callers : LoaderFail(c)
  \/ \E c \in Callers, m \in LoaderOutputs, r \in Refs : LoaderReturn(c, r, m)
  \/ \E c \in Callers : LoadSwap(c)
  \/ \E c \in Callers, k \in Keys, v \in Vals : Add(c, k, v)
  \/ \E c \in Callers, k \in Keys : Delete(c, k)
  \/ \E c \in Callers : Clear(c)
  \/ \E c \in Callers, k \in Keys : GetRead(c, k)
  \/ \E c \in Callers, P \in Preds, o \in Orders(Contents(data)) : FindRead(c, P, o)
  \/ \E c \in Callers, P \in Preds, o \in Orders(Contents(data)) : FindOneRead(c, P, o)
  \/ \E c \in Callers : ReadReturn(c)

SpecReads == Init /\ [][NextReads]_vars

\* ---- the copies: GetAll, what its caller does with the returned map, and
\* loads and point mutations by the callers; no auto-reload ----
NextCopy ==
  \/ \E c \in Callers : LoadCall(c)
  \/ \E c \in Callers : LoaderFail(c)
  \/ \E c \in Callers, m \in LoaderOutputs, r \in Refs : LoaderReturn(c, r, m)
  \/ \E c \in Callers : LoadSwap(c)
  \/ \E c \in Callers, k \in Keys, v \in Vals : Add(c, k, v)
  \/ \E c \in Callers, k \in Keys : Delete(c, k)
  \/ \E c \in Callers : Clear(c)
  \/ \E c \in Callers : GetAllBegin(c)
  \/ \E c \in Callers, k \in Keys : GetAllCopy(c, k)
  \/ \E c \in Callers, track \in BOOLEAN : GetAllReturn(c, track)
  \/ \E k \in Keys, v \in Vals : HeldSet(k, v)
  \/ \E k \in Keys : HeldDelete(k)

SpecCopy == Init /\ [][NextCopy]_vars

\* ---- the whole program ----
\* Every operation next to every other.  Its state space is the product of
\* the two above; the properties below are checked under SpecData,
\* SpecLifecycle, SpecReads and SpecCopy.
Next == NextData \/ NextLifecycle \/ NextReads \/ NextCopy

Spec == Init /\ [][Next]_vars

\* ==== Auto-reload lifecycle ====

\* C1: StopAutoReload on a cache that was never started does not panic,
\* however often it is repeated: close(c.quit) never hits a closed channel.
C1_StopWhenStoppedNeverPanics ==
  nextTicker = 0 => panicked # PanicCloseClosed

\* C2: after SetInterval on a running cache the background task follows the
\* replacement timer: while the cache is running and was never stopped, a
\* task blocked in its select waits on the current c.ticker, not on a
\* stopped predecessor.
C2_TaskFollowsReplacedTimer ==
  (ticker # NoTicker /\ quit = "open") =>
     \A g \in Tasks : pc[g] = "wait" => waitOn[g] = ticker

\* C3: every StartAutoReload that spawns the background task hands it a
\* fresh cancellation signal: c.quit is not already closed by an earlier
\* StopAutoReload when the go statement runs.
C3_StartUsesFreshQuit ==
  [][\A c \in Callers : (pc[c] = "start_go" /\ pc'[c] = "idle") => quit = "open"]_vars

\* C4: at most one background reload task is alive at any time.
C4_AtMostOneTask ==
  Cardinality({g \in Tasks : LiveTask(g)}) <= 1

\* C5: StartAutoReload on a running cache is a no-op: the call that finds
\* c.ticker set returns without creating a timer or a task, so the timer
\* and the tasks are those of the first call.
C5_StartIdempotent ==
  [][\A c \in Callers :
       (pc[c] = "start" /\ ticker # NoTicker /\ pc'[c] # "start") =>
          /\ pc'[c] = "idle"
          /\ ticker' = ticker
          /\ nextTicker' = nextTicker
          /\ active' = active
          /\ \A g \in Tasks : pc'[g] = pc[g]
          /\ panicked' = panicked]_vars

\* C5 witness: a second StartAutoReload holds the lock while the cache is
\* running with the first call's task alive.
C5_Witness ==
  \E c \in Callers :
    /\ pc[c] = "start"
    /\ ticker # NoTicker
    /\ ticker \in active
    /\ \E g \in Tasks : pc[g] = "wait" /\ waitOn[g] = ticker

\* C6: once StopAutoReload has returned on a running cache (quit closed,
\* c.ticker nil, lock released) the background task starts no new loader
\* call and ends by returning, not by a panic.
C6_StopHaltsTask ==
  [][(quit = "closed" /\ ticker = NoTicker /\ mu.w = NoProc) =>
        /\ \A g \in Tasks : pc'[g] = "loader" => pc[g] = "loader"
        /\ panicked' # PanicNilDeref]_vars

\* ==== Load, snapshot and locking ====

\* C7: a Load whose loader reports an error leaves the map as it was: the
\* step in which the failed Load returns changes neither c.data nor its
\* contents, raises nothing, and the caller (or the background task) goes
\* on.
C7_FailedLoadKeepsData ==
  [][\A p \in Procs :
       (pc[p] = "loader" /\ pc'[p] = AfterLoad(p)) =>
          /\ data' = data
          /\ Contents(data)' = Contents(data)
          /\ panicked' = panicked]_vars

\* C7 witness: a manual and a tick-triggered Load are both inside the
\* loader while the cache holds entries the loader did not last produce.
C7_Witness ==
  /\ \E c \in Callers : pc[c] = "loader"
  /\ \E g \in Tasks : pc[g] = "loader"
  /\ Contents(data) \notin LoaderOutputs \cup {EmptyMap}

\* C8: a successful Load replaces the whole map: right after the swap the
\* contents of c.data are exactly the mapping the loader returned, whatever
\* Add, Delete and Clear had made of the previous snapshot.
C8_LoadReplacesWholeMap ==
  [][\A p \in Procs :
       (pc[p] = "swap" /\ pc'[p] # "swap") =>
          Contents(data)' = Contents(result[p])]_vars

\* C8 witness: a Load is about to swap in a mapping that lacks a key the
\* current snapshot has and gives another key a different value.
C8_Witness ==
  \E p \in Procs :
    /\ pc[p] = "swap"
    /\ DOMAIN Contents(data) \ DOMAIN Contents(result[p]) # {}
    /\ \E k \in DOMAIN Contents(data) \cap DOMAIN Contents(result[p]) :
         Contents(data)[k] # Contents(result[p])[k]

\* C9: a read sees one whole snapshot: while GetAll holds the read lock no
\* step changes the contents of c.data, and the map it returns is that
\* snapshot, complete.
C9_ReadsSeeWholeSnapshot ==
  [][\A c \in Callers :
       pc[c] = "getall" =>
          /\ Contents(data)' = Contents(data)
          /\ pc'[c] = "idle" => acc[c] = Contents(data)]_vars

\* C9 witness: GetAll has copied part of a two-entry snapshot while a
\* reload waits to swap in a different mapping.
C9_Witness ==
  \E c \in Callers, p \in Procs :
    /\ pc[c] = "getall"
    /\ pc[p] = "swap"
    /\ Cardinality(DOMAIN acc[c]) = 1
    /\ Cardinality(DOMAIN Contents(iter[c])) = 2
    /\ Contents(result[p]) # Contents(data)

\* C10: no Load holds c.mu, for reading or for writing, while it is inside
\* its loader call or waiting to swap.
C10_NoLockAcrossLoader ==
  \A p \in Procs :
    pc[p] \in {"loader", "swap"} => (mu.w # p /\ p \notin mu.r)

\* C10 witness: while a manual and a tick-triggered Load are both inside
\* the loader, another caller is reading under the read lock.
C10_Witness ==
  /\ \E c \in Callers : pc[c] = "loader"
  /\ \E g \in Tasks : pc[g] = "loader"
  /\ \E c \in Callers : pc[c] = "getall" /\ c \in mu.r

\* ==== Totality, linearization and frame of the point mutations ====

\* C11: Get, Add, Delete, Clear, Find, FindOne and GetAll never panic,
\* whatever mapping (an empty or a nil one included) a successful loader call
\* returned: no assignment to an entry of a nil map is ever made.
C11_OperationsAreTotal ==
  panicked # PanicNilMap

\* The entry of key x in map m: <<value>>, or <<>> when absent.
Entry(m, x) == IF x \in DOMAIN m THEN <<m[x]>> ELSE <<>>

\* C12: writes are linearized: each Add, Delete, Clear and Load swap acts as
\* one whole step on the map as the previous write left it (no update is
\* lost, the last swap wins), and the map changes in no other step and only
\* when the exclusive lock could be taken.
C12_WritesLinearized ==
  [][/\ \A c \in Callers, k \in Keys, v \in Vals :
          (Add(c, k, v) /\ panicked' = NoPanic) =>
             Contents(data)' = MapSet(Contents(data), k, v)
     /\ \A c \in Callers, k \in Keys :
          Delete(c, k) => Contents(data)' = MapDelete(Contents(data), k)
     /\ \A c \in Callers : Clear(c) => Contents(data)' = EmptyMap
     /\ \A p \in Procs : LoadSwap(p) => Contents(data)' = Contents(result[p])
     /\ Contents(data)' # Contents(data) =>
          /\ CanLock
          /\ \/ \E c \in Callers, k \in Keys, v \in Vals : Add(c, k, v)
             \/ \E c \in Callers, k \in Keys : Delete(c, k)
             \/ \E c \in Callers : Clear(c)
             \/ \E p \in Procs : LoadSwap(p)]_vars

\* C12 witness: two Loads overlap, each waiting to swap in a different
\* mapping, over a map in which Adds on both keys are present.
C12_Witness ==
  /\ \E p \in Procs, q \in Procs :
       /\ p # q
       /\ pc[p] = "swap" /\ pc[q] = "swap"
       /\ Contents(result[p]) # Contents(result[q])
  /\ DOMAIN Contents(data) = Keys
  /\ Contents(data) \notin LoaderOutputs

\* C13: a tick whose Load fails does not end auto-reload: when the failed
\* Load returns, the task is back at the top of its loop with the cache
\* still running on the same active ticker, and a task blocked in its
\* select waits on that ticker, so its next tick triggers a Load.
C13_FailedTickKeepsReloading ==
  /\ [](\A g \in Tasks : pc[g] = "wait" => (waitOn[g] = ticker /\ ticker \in active))
  /\ [][\A g \in Tasks :
          (pc[g] = "loader" /\ pc'[g] \notin {"loader", "swap"}) =>
             /\ pc'[g] = "sel"
             /\ ticker' = ticker /\ ticker' # NoTicker /\ ticker' \in active'
             /\ visible'[g] = {ticker'}
             /\ panicked' = panicked]_vars

\* C13 witness: the background task is inside the loader on a tick, with
\* a previously loaded map in place and the next tick already buffered.
C13_Witness ==
  \E g \in Tasks :
    /\ pc[g] = "loader"
    /\ ticker \in pending
    /\ Contents(data) \in LoaderOutputs
    /\ \A c \in Callers : pc[c] = "idle"

\* The state of auto-reload: interval, timer, cancellation signal, tasks.
LifecycleState ==
  <<interval, ticker, nextTicker, active, pending, quit,
    [g \in Tasks |-> pc[g]], waitOn>>

\* C17: point mutations change only what they name: Add and Delete leave
\* every other key's entry as it was, Delete of an absent key leaves the map
\* as it was, Clear leaves it empty, and none of them touches the interval,
\* the timer or the running state of auto-reload.
C17_PointMutationFrame ==
  [][/\ \A c \in Callers, k \in Keys, v \in Vals :
          Add(c, k, v) =>
             /\ \A x \in Keys \ {k} : Entry(Contents(data)', x) = Entry(Contents(data), x)
             /\ LifecycleState' = LifecycleState
     /\ \A c \in Callers, k \in Keys :
          Delete(c, k) =>
             /\ \A x \in Keys \ {k} : Entry(Contents(data)', x) = Entry(Contents(data), x)
             /\ k \notin DOMAIN Contents(data) => Contents(data)' = Contents(data)
             /\ LifecycleState' = LifecycleState
     /\ \A c \in Callers :
          Clear(c) => (Contents(data)' = EmptyMap /\ LifecycleState' = LifecycleState)]_vars

\* C17 witness: auto-reload is running, its task blocked on the active
\* ticker, and the map holds both keys while a caller is free to mutate it.
C17_Witness ==
  /\ ticker \in active
  /\ \E g \in Tasks : pc[g] = "wait" /\ waitOn[g] = ticker
  /\ DOMAIN Contents(data) = Keys
  /\ CanLock
  /\ \A c \in Callers : pc[c] = "idle"

\* C18: the background task never uses an absent timer: neither c.ticker.C
\* at the top of the loop nor c.ticker.Stop() in the quit branch is ever
\* evaluated with c.ticker nil.
C18_TaskNeverUsesNilTicker ==
  panicked # PanicNilDeref

\* C19: the lifecycle flag agrees with the task: when no lifecycle call
\* holds the lock and every signalled task has exited, c.ticker is non-nil
\* exactly when a live task exists that waits (or is about to wait) on that
\* same, still active ticker.
C19_FlagAgreesWithTask ==
  (/\ Alive
   /\ mu.w = NoProc
   /\ quit = "closed" => \A g \in Tasks : ~LiveTask(g)) =>
     (ticker # NoTicker <=>
        \E g \in Tasks :
          /\ LiveTask(g)
          /\ ticker \in active
          /\ pc[g] = "wait" => waitOn[g] = ticker)

\* C20: the cache's snapshot is not shared with the loader: once the loader
\* has handed out its map object, no cache operation changes that object.
C20_LoaderMapNotShared ==
  [][loaderMap # <<>> => loaderMap' = loaderMap]_vars

\* ==== Reads and returned copies ====

\* C14: read-your-write: right after Add(k, v) a Get(k) yields (v, true),
\* whether or not k was present, and right after Delete(k) a Get(k) yields
\* found = false.
C14_ReadYourWrite ==
  [][/\ \A c \in Callers, k \in Keys, v \in Vals :
          Add(c, k, v) => Lookup(Contents(data)', k) = <<v, TRUE>>
     /\ \A c \in Callers, k \in Keys :
          Delete(c, k) => Lookup(Contents(data)', k) = <<Zero, FALSE>>]_vars

\* C15: the map GetAll returned is independent of the cache in both
\* directions: the caller's writes to it leave the cache's map as it was,
\* and Add, Delete, Clear and Load swaps leave the returned map as it was.
C15_GetAllCopyIndependent ==
  [][/\ \A k \in Keys, v \in Vals : HeldSet(k, v) => Contents(data)' = Contents(data)
     /\ \A k \in Keys : HeldDelete(k) => Contents(data)' = Contents(data)
     /\ (\/ \E c \in Callers, k \in Keys, v \in Vals : Add(c, k, v)
         \/ \E c \in Callers, k \in Keys : Delete(c, k)
         \/ \E c \in Callers : Clear(c)
         \/ \E p \in Procs : LoadSwap(p)) => Contents(held)' = Contents(held)]_vars

\* C15 witness: a caller holds a map GetAll returned, has written to it,
\* and the cache (sharing its map with the loader) has moved on as well.
C15_Witness ==
  /\ held.kind = "own"
  /\ DOMAIN held.m = Keys
  /\ data = Shared
  /\ DOMAIN Contents(data) # Keys
  /\ \E k \in DOMAIN Contents(data) : Contents(data)[k] # held.m[k]

\* The number of times value v occurs in sequence s.
Count(s, v) == Cardinality({i \in 1..Len(s) : s[i] = v})

\* C16: Find returns exactly the values of the snapshot that satisfy the
\* predicate, one per matching key; FindOne reports found exactly when some
\* value satisfies it and then returns such a value of the snapshot;
\* neither changes the map.
C16_FindReturnsMatches ==
  /\ [](\A c \in Callers :
          /\ pc[c] = "find" =>
               \A v \in Vals :
                 Count(ret[c].out, v) =
                   IF v \in ret[c].p
                     THEN Cardinality({k \in DOMAIN Contents(data) : Contents(data)[k] = v})
                     ELSE 0
          /\ pc[c] = "findone" =>
               /\ ret[c].ok <=> \E k \in DOMAIN Contents(data) : Contents(data)[k] \in ret[c].p
               /\ ret[c].ok => /\ ret[c].val \in ret[c].p
                               /\ \E k \in DOMAIN Contents(data) : Contents(data)[k] = ret[c].val
               /\ ~ret[c].ok => ret[c].val = Zero)
  /\ [][\A c \in Callers :
          (pc[c] = "idle" /\ pc'[c] \in {"find", "findone"}) =>
             (data' = data /\ loaderMap' = loaderMap)]_vars

\* C16 witness: Find has collected both entries of a snapshot for a
\* predicate that not every value satisfies, while another caller's FindOne
\* with a different predicate found nothing.
C16_Witness ==
  \E c \in Callers, d \in Callers :
    /\ pc[c] = "find"
    /\ ret[c].p # Vals
    /\ Len(ret[c].out) = 2
    /\ pc[d] = "findone"
    /\ ret[d].p # {}
    /\ ~ret[d].ok

====
